---- MODULE Spec2Model ----
(***************************************************************************)
(* A model of package wflambda (src/handler.go): the payload adapter       *)
(* newHandler with its signature validators, and the telemetry decorator   *)
(* HandlerWrapper.Invoke with its deferred cleanup.                        *)
(*                                                                         *)
(* Go strings that the code takes apart (the invoked function ARN) are     *)
(* sequences of tokens, ":" being a token of its own; every other Go       *)
(* string is a TLA+ string.  A Go value is a record [type, v].             *)
(***************************************************************************)
EXTENDS Integers, Sequences, FiniteSets, TLC

VARIABLES
    handler,            \* the user function handed to wrapHandler
    coldStart,          \* package variable coldStart
    csCounter,          \* csCounter.val
    invocationsCounter, \* invocationsCounter.val
    errCounter,         \* errCounter.val
    PointTags,          \* wavefrontAgent.WavefrontConfig.PointTags
    metrics,            \* wavefrontAgent.metrics
    counters,           \* wavefrontAgent.counters
    closed,             \* Close has been called on wavefrontAgent.sender
    usedAfterClose,     \* a sender call was issued after Close
    emitted,            \* per counter name, the sum of the delta values sent
    nInvocations,       \* calls of the wrapped lambdaHandler so far
    interleaved,        \* some call began while another was in progress
    validations,        \* runs of the signature validator so far
    handlerCalls,       \* calls of the user function so far
    lastArgs,           \* argument list of the latest call of the user function
    pc,                 \* per invocation: where it stands
    arn,                \* per invocation: lambdaContext.InvokedFunctionArn
    payload,            \* per invocation: the payload argument, once the adapter read it
    wrappedHandler,     \* per invocation: hw.wrappedHandler
    response,           \* per invocation: named result response
    err,                \* per invocation: named result err
    raised,             \* per invocation: the panic value in flight
    pending,            \* per invocation: map keys the range loop has not visited
    inner,              \* per invocation: what hw.wrappedHandler did
    before,             \* per invocation: the process-wide state when it began
    log                 \* per invocation: the sender calls it issued, in order (batches)

procVars == <<coldStart, csCounter, invocationsCounter, errCounter>>
agentVars == <<PointTags, metrics, counters>>
senderVars == <<closed, usedAfterClose, emitted>>
adapterVars == <<validations, handlerCalls, lastArgs>>
invVars == <<pc, arn, payload, wrappedHandler, response, err, raised, pending,
             inner, before, log>>
vars == <<handler, procVars, agentVars, senderVars, adapterVars, nInvocations,
          interleaved, invVars>>

----------------------------------------------------------------------------
(* Bounds *)

MaxArity == 3
MaxInvocations == 2

----------------------------------------------------------------------------
(* Values *)

Workers == {"w1", "w2"}
Main == "w1"

NoError == "<nil>"
Nil == [type |-> "nil", v |-> ""]
NoPanic == "<none>"

GoVal(t, v) == [type |-> t, v |-> v]

ArgTypes == {"Context", "int", "string"}
RetTypes == {"error", "string"}

SeqsUpTo(S, n) == UNION {[1..k -> S] : k \in 0..n}

NilHandler == [kind |-> "nil", ins |-> <<>>, outs |-> <<>>]
NonFuncHandler == [kind |-> "struct", ins |-> <<>>, outs |-> <<>>]
FuncHandler(ins, outs) == [kind |-> "func", ins |-> ins, outs |-> outs]

AllHandlers ==
    {NilHandler, NonFuncHandler}
        \cup {FuncHandler(i, o) : i \in SeqsUpTo(ArgTypes, MaxArity),
                                  o \in SeqsUpTo(RetTypes, MaxArity)}

MapSet(m, k, v) == [x \in DOMAIN m \cup {k} |-> IF x = k THEN v ELSE m[x]]
EmptyMap == [x \in {} |-> 0]

----------------------------------------------------------------------------
(* reflect.Type of a handler *)

NumIn(h) == Len(h.ins)
NumOut(h) == Len(h.outs)
ImplementsContext(t) == t = "Context"
ImplementsError(t) == t = "error"

----------------------------------------------------------------------------
(* validateArguments: <<handlerTakesContext, error>> *)

validateArguments(h) ==
    IF NumIn(h) > 2
    THEN <<FALSE, "handlers may not take more than two arguments, but handler takes "
                    \o ToString(NumIn(h))>>
    ELSE IF NumIn(h) > 0
    THEN LET handlerTakesContext == ImplementsContext(h.ins[1])
         IN IF NumIn(h) > 1 /\ ~handlerTakesContext
            THEN <<FALSE, "handler takes two arguments, but the first is not Context. got "
                            \o h.ins[1]>>
            ELSE <<handlerTakesContext, NoError>>
    ELSE <<FALSE, NoError>>

(* validateReturns looking at the first of two return values *)
validateReturnsFirstOfTwo(h) ==
    IF NumOut(h) > 2
    THEN "handler may not return more than two values"
    ELSE IF NumOut(h) > 1
    THEN IF ~ImplementsError(h.outs[1])
         THEN "handler returns two values, but the second does not implement error"
         ELSE NoError
    ELSE IF NumOut(h) = 1
    THEN IF ~ImplementsError(h.outs[1])
         THEN "handler returns a single value, but it does not implement error"
         ELSE NoError
    ELSE NoError

(* validateReturns: error *)

validateReturns(h) ==
    IF NumOut(h) > 2
    THEN "handler may not return more than two values"
    ELSE IF NumOut(h) > 1
    THEN IF ~ImplementsError(h.outs[2])
         THEN "handler returns two values, but the second does not implement error"
         ELSE NoError
    ELSE IF NumOut(h) = 1
    THEN IF ~ImplementsError(h.outs[1])
         THEN "handler returns a single value, but it does not implement error"
         ELSE NoError
    ELSE NoError

(* errorHandler: a lambdaHandler that returns (nil, e) *)

errorHandler(e) == [kind |-> "error", err |-> e, takesContext |-> FALSE]

(* newHandler dropping the result of validateReturns *)
newHandlerUncheckedReturns(handlerSymbol) ==
    IF handlerSymbol.kind = "nil"
    THEN errorHandler("handler is nil")
    ELSE IF handlerSymbol.kind # "func"
    THEN errorHandler("handler kind " \o handlerSymbol.kind \o " is not func")
    ELSE LET va == validateArguments(handlerSymbol)
         IN IF va[2] # NoError THEN errorHandler(va[2])
            ELSE [kind |-> "call", err |-> NoError, takesContext |-> va[1]]

(* newHandler: the lambdaHandler built from a handler symbol.  The closure *)
(* of a valid handler captures handler, handlerType and takesContext.      *)

newHandler(handlerSymbol) ==
    IF handlerSymbol.kind = "nil"
    THEN errorHandler("handler is nil")
    ELSE IF handlerSymbol.kind # "func"
    THEN errorHandler("handler kind " \o handlerSymbol.kind \o " is not func")
    ELSE LET va == validateArguments(handlerSymbol)
             vr == validateReturns(handlerSymbol)
         IN IF va[2] # NoError THEN errorHandler(va[2])
            ELSE IF vr # NoError THEN errorHandler(vr)
            ELSE [kind |-> "call", err |-> NoError, takesContext |-> va[1]]

(* Whether newHandler reaches the validators for this handler symbol. *)
Validates(handlerSymbol) == handlerSymbol.kind = "func"

----------------------------------------------------------------------------
(* encoding/json on the payloads of the model.  A payload is what the      *)
(* caller holds in an interface{}: nil, a float64, a string or a channel.  *)

PayloadNil == Nil
PayloadNumber == GoVal("float64", "42")
PayloadString == GoVal("string", "hello")
PayloadChan == GoVal("chan", "")
Payloads == {PayloadNil, PayloadNumber, PayloadString, PayloadChan}

(* json.Marshal: <<bytes, error>> *)
Marshal(p) ==
    CASE p.type = "nil" -> <<"null", NoError>>
      [] p.type = "float64" -> <<p.v, NoError>>
      [] p.type = "string" -> <<"\"" \o p.v \o "\"", NoError>>
      [] OTHER -> <<"", "json: unsupported type: " \o p.type>>

JSONKind(bytes) ==
    IF bytes = "null" THEN "null"
    ELSE IF bytes = Marshal(PayloadString)[1] THEN "string"
    ELSE "number"

(* json.Unmarshal(bytes, reflect.New(eventType)): <<event.Elem(), error>> *)
ZeroValue(t) ==
    CASE t = "int" -> GoVal("int", "0")
      [] t = "string" -> GoVal("string", "")
      [] OTHER -> GoVal(t, "<nil>")

Unmarshal(bytes, eventType) ==
    LET k == JSONKind(bytes)
        mismatch == "json: cannot unmarshal " \o k \o " into Go value of type " \o eventType
    IN CASE k = "null" -> <<ZeroValue(eventType), NoError>>
         [] k = "number" /\ eventType = "int" -> <<GoVal("int", bytes), NoError>>
         [] k = "string" /\ eventType = "string" -> <<GoVal("string", PayloadString.v), NoError>>
         [] OTHER -> <<ZeroValue(eventType), mismatch>>

----------------------------------------------------------------------------
(* The user function: what a call of it may do.  It panics, with a value   *)
(* or with panic(nil), or returns one value per declared return type.      *)

HandlerError == "handler failed"
HandlerPanic == "handler panicked"
NilPanic == "panic(nil)"
HandlerPanics == {HandlerPanic, NilPanic}

(* recover() in a deferred function, under the Go versions of go.mod (1.13 *)
(* and 1.14): the value of the panic in flight, nil when there is none and *)
(* nil after panic(nil); the panic stops either way.                       *)
Recover(p) == IF p = NilPanic THEN NoPanic ELSE p
CtxValue == GoVal("Context", "ctx")

ReturnValues(t) ==
    IF ImplementsError(t)
    THEN {GoVal("error", NoError), GoVal("error", HandlerError)}
    ELSE {GoVal(t, "result")}

HandlerResults(h) ==
    {r \in [1..NumOut(h) -> UNION {ReturnValues(t) : t \in RetTypes}] :
        \A i \in 1..NumOut(h) : r[i] \in ReturnValues(h.outs[i])}

Outcome(p, r, e, called, args) ==
    [panic |-> p, response |-> r, err |-> e, called |-> called, args |-> args]

(* Whether the closure newHandler returns reads its payload argument. *)
TakesPayload(wh, h) ==
    wh.kind = "call" /\ ((NumIn(h) = 1 /\ ~wh.takesContext) \/ NumIn(h) = 2)

(* The closure calling the handler with the zero value when decoding fails *)
CallHandlerIgnoringDecodeError(wh, h, ctx, p) ==
    LET args0 == IF wh.takesContext THEN <<ctx>> ELSE <<>>
        takesPayload == TakesPayload(wh, h)
        m == Marshal(p)
        eventType == h.ins[NumIn(h)]
        u == Unmarshal(m[1], eventType)
        args == IF takesPayload THEN Append(args0, u[1]) ELSE args0
        Convert(res) ==
            LET e == IF Len(res) > 0 /\ res[Len(res)].type = "error"
                        /\ res[Len(res)].v # NoError
                     THEN res[Len(res)].v ELSE NoError
                val == IF Len(res) > 1 THEN res[1] ELSE Nil
            IN Outcome(NoPanic, val, e, TRUE, args)
    IN {Outcome(pv, Nil, NoError, TRUE, args) : pv \in HandlerPanics}
           \cup {Convert(res) : res \in HandlerResults(h)}

(* The closure putting the payload before the context *)
CallHandlerPayloadFirst(wh, h, ctx, p) ==
    LET args0 == IF wh.takesContext THEN <<ctx>> ELSE <<>>
        takesPayload == TakesPayload(wh, h)
        m == Marshal(p)
        eventType == h.ins[NumIn(h)]
        u == Unmarshal(m[1], eventType)
        args == IF takesPayload THEN <<u[1]>> \o args0 ELSE args0
        Convert(res) ==
            LET e == IF Len(res) > 0 /\ res[Len(res)].type = "error"
                        /\ res[Len(res)].v # NoError
                     THEN res[Len(res)].v ELSE NoError
                val == IF Len(res) > 1 THEN res[1] ELSE Nil
            IN Outcome(NoPanic, val, e, TRUE, args)
    IN IF takesPayload /\ m[2] # NoError
       THEN {Outcome(NoPanic, Nil, m[2], FALSE, <<>>)}
       ELSE IF takesPayload /\ u[2] # NoError
       THEN {Outcome(NoPanic, Nil, u[2], FALSE, <<>>)}
       ELSE {Outcome(pv, Nil, NoError, TRUE, args) : pv \in HandlerPanics}
                \cup {Convert(res) : res \in HandlerResults(h)}

(* The closure newHandler returns for a valid handler: decode the payload, *)
(* call the handler, convert what it returns into (interface{}, error).    *)
CallHandler(wh, h, ctx, p) ==
    LET args0 == IF wh.takesContext THEN <<ctx>> ELSE <<>>
        takesPayload == TakesPayload(wh, h)
        m == Marshal(p)
        eventType == h.ins[NumIn(h)]
        u == Unmarshal(m[1], eventType)
        args == IF takesPayload THEN Append(args0, u[1]) ELSE args0
        Convert(res) ==
            LET e == IF Len(res) > 0 /\ res[Len(res)].type = "error"
                        /\ res[Len(res)].v # NoError
                     THEN res[Len(res)].v ELSE NoError
                val == IF Len(res) > 1 THEN res[1] ELSE Nil
            IN Outcome(NoPanic, val, e, TRUE, args)
    IN IF takesPayload /\ m[2] # NoError
       THEN {Outcome(NoPanic, Nil, m[2], FALSE, <<>>)}
       ELSE IF takesPayload /\ u[2] # NoError
       THEN {Outcome(NoPanic, Nil, u[2], FALSE, <<>>)}
       ELSE {Outcome(pv, Nil, NoError, TRUE, args) : pv \in HandlerPanics}
                \cup {Convert(res) : res \in HandlerResults(h)}

(* A call of a lambdaHandler value: the outcomes it may have. *)
Call(wh, h, ctx, p) ==
    IF wh.kind = "error"
    THEN {Outcome(NoPanic, Nil, wh.err, FALSE, <<>>)}
    ELSE CallHandler(wh, h, ctx, p)

----------------------------------------------------------------------------
(* The execution context: lambdacontext.FunctionName, FunctionVersion and  *)
(* the invoked function ARN of the invocation.                             *)

FunctionName == <<"my-func">>
FunctionVersion == <<"$LATEST">>

Colon == ":"
Join(segs) ==
    LET RECURSIVE J(_)
        J(i) == IF i > Len(segs) THEN <<>>
                ELSE IF i = Len(segs) THEN <<segs[i]>>
                ELSE <<segs[i], Colon>> \o J(i + 1)
    IN J(1)

ArnQualified == Join(<<"arn", "aws", "lambda", "us-west-2", "123456789012",
                       "function", "my-func", "3">>)
ArnFunction == Join(<<"arn", "aws", "lambda", "us-west-2", "123456789012",
                      "function", "my-func">>)
ArnEventSource == Join(<<"arn", "aws", "lambda", "eu-west-1", "210987654321",
                         "event-source-mappings", "abc123">>)
ArnLayer == Join(<<"arn", "aws", "lambda", "us-west-2", "123456789012",
                   "layer", "my-layer", "1">>)
ArnNoName == Join(<<"arn", "aws", "lambda", "us-west-2", "123456789012", "function">>)
ArnShort == Join(<<"arn", "aws", "lambda", "us-west-2", "123456789012">>)
ArnPrefix == Join(<<"arn", "aws", "lambda">>)
Arns == {ArnQualified, ArnFunction, ArnEventSource, ArnLayer, ArnNoName, ArnShort,
         ArnPrefix}

(* lambdacontext.FromContext(ctx): the LambdaContext of the invocation, or *)
(* nil when the host put none in ctx.                                      *)
NoLambdaContext == [isNil |-> TRUE, InvokedFunctionArn |-> <<>>]
LambdaContext(a) == [isNil |-> FALSE, InvokedFunctionArn |-> a]
LambdaContexts == {NoLambdaContext} \cup {LambdaContext(a) : a \in Arns}
NilDereference == "runtime error: invalid memory address or nil pointer dereference"

(* strings.Split(s, ":") *)
RECURSIVE SplitFrom(_, _, _)
SplitFrom(s, i, cur) ==
    IF i > Len(s) THEN <<cur>>
    ELSE IF s[i] = Colon THEN <<cur>> \o SplitFrom(s, i + 1, <<>>)
    ELSE SplitFrom(s, i + 1, Append(cur, s[i]))

Split(s) == SplitFrom(s, 1, <<>>)

IndexPanic(i, n) ==
    "runtime error: index out of range [" \o ToString(i) \o "] with length " \o ToString(n)

(* Tag resolution that never appends the qualifier to Resource *)
ResolveTagsWithoutQualifier(tags, lc) ==
    LET invokedFunctionArn == lc.InvokedFunctionArn
        sp == Split(invokedFunctionArn)
        n == Len(sp)
        t0 == MapSet(MapSet(MapSet(MapSet(tags,
                    "LambdaArn", invokedFunctionArn),
                    "source", FunctionName),
                    "FunctionName", FunctionName),
                    "ExecutedVersion", FunctionVersion)
        t1 == MapSet(t0, "Region", sp[4])
        t2 == MapSet(t1, "accountId", sp[5])
        t3 == MapSet(t2, "Resource", sp[7])
        t5 == MapSet(t2, "EventSourceMappings", sp[7])
        R(t, p) == [tags |-> t, panic |-> p]
    IN IF lc.isNil THEN R(tags, NilDereference)
       ELSE IF n < 4 THEN R(t0, IndexPanic(3, n))
       ELSE IF n < 5 THEN R(t1, IndexPanic(4, n))
       ELSE IF n < 6 THEN R(t2, IndexPanic(5, n))
       ELSE IF sp[6] = <<"function">>
       THEN IF n < 7 THEN R(t2, IndexPanic(6, n))
            ELSE R(t3, NoPanic)
       ELSE IF sp[6] = <<"event-source-mappings">>
       THEN IF n < 7 THEN R(t2, IndexPanic(6, n))
            ELSE R(t5, NoPanic)
       ELSE R(t2, NoPanic)

(* Tag resolution that leaves a tag set alone once it holds an identity *)
ResolveTagsKeepingIdentity(tags, lc) ==
    IF ~lc.isNil /\ "LambdaArn" \in DOMAIN tags
    THEN [tags |-> tags, panic |-> NoPanic]
    ELSE ResolveTagsWithoutQualifier(tags, lc)

(* Tag resolution that tests the length of the split ARN before it writes *)
ResolveTagsCheckedFirst(tags, lc) ==
    LET r == ResolveTagsWithoutQualifier(tags, lc)
    IN IF r.panic # NoPanic THEN [tags |-> tags, panic |-> r.panic] ELSE r

(* Invoke, lines 50-69: the point tags after the assignments that ran, and *)
(* the panic of the first nil dereference or index expression out of       *)
(* range, if any.  Go indexes from 0: splitArn[i] is sp[i + 1].            *)
ResolveTags(tags, lc) ==
    LET invokedFunctionArn == lc.InvokedFunctionArn
        sp == Split(invokedFunctionArn)
        n == Len(sp)
        t0 == MapSet(MapSet(MapSet(MapSet(tags,
                    "LambdaArn", invokedFunctionArn),
                    "source", FunctionName),
                    "FunctionName", FunctionName),
                    "ExecutedVersion", FunctionVersion)
        t1 == MapSet(t0, "Region", sp[4])
        t2 == MapSet(t1, "accountId", sp[5])
        t3 == MapSet(t2, "Resource", sp[7])
        t4 == MapSet(t3, "Resource", t3["Resource"] \o <<Colon>> \o sp[8])
        t5 == MapSet(t2, "EventSourceMappings", sp[7])
        R(t, p) == [tags |-> t, panic |-> p]
    IN IF lc.isNil THEN R(tags, NilDereference)
       ELSE IF n < 4 THEN R(t0, IndexPanic(3, n))
       ELSE IF n < 5 THEN R(t1, IndexPanic(4, n))
       ELSE IF n < 6 THEN R(t2, IndexPanic(5, n))
       ELSE IF sp[6] = <<"function">>
       THEN IF n < 7 THEN R(t2, IndexPanic(6, n))
            ELSE IF n = 8 THEN R(t4, NoPanic)
            ELSE R(t3, NoPanic)
       ELSE IF sp[6] = <<"event-source-mappings">>
       THEN IF n < 7 THEN R(t2, IndexPanic(6, n))
            ELSE R(t5, NoPanic)
       ELSE R(t2, NoPanic)

----------------------------------------------------------------------------
(* The sender *)

SendError == "send failed"
ErrorsName == "aws.lambda.wf.errors"
ColdStartsName == "aws.lambda.wf.coldstarts"
InvocationsName == "aws.lambda.wf.invocations"
DurationName == "aws.lambda.wf.duration"
MemTotalName == "aws.lambda.wf.mem.total"
MemUsedName == "aws.lambda.wf.mem.used"
MemPercentageName == "aws.lambda.wf.mem.percentage"
CounterNames == {ErrorsName, ColdStartsName, InvocationsName}

SenderCall(op, name, value, tags) ==
    [op |-> op, name |-> name, value |-> value, source |-> FunctionName, tags |-> tags]

(* time.Since(startTime), in milliseconds *)
Durations == {3, 250}

(* getMemoryStats *)
MemoryStats == {[Total |-> 128, Used |-> 64, UsedPercentage |-> 50]}

(* counter.Increment *)
Increment(val, n) == val + n

----------------------------------------------------------------------------
(* Initial states *)

NotCalled == "<not called>"
NoOutcome == Outcome(NotCalled, Nil, NoError, FALSE, <<>>)
NoHandler == errorHandler(NoError)
Snapshot ==
    [coldStart |-> coldStart, csCounter |-> csCounter,
     invocationsCounter |-> invocationsCounter, errCounter |-> errCounter,
     handlerCalls |-> handlerCalls, closed |-> closed, emitted |-> emitted]

InitProcess ==
    /\ coldStart = TRUE
    /\ csCounter = 0
    /\ invocationsCounter = 0
    /\ errCounter = 0
    /\ PointTags = EmptyMap
    /\ metrics = EmptyMap
    /\ counters = EmptyMap
    /\ closed = FALSE
    /\ usedAfterClose = FALSE
    /\ emitted = [c \in CounterNames |-> 0]
    /\ nInvocations = 0
    /\ interleaved = FALSE
    /\ validations = 0
    /\ handlerCalls = 0
    /\ lastArgs = <<>>
    /\ pc = [w \in Workers |-> "idle"]
    /\ arn = [w \in Workers |-> <<>>]
    /\ payload = [w \in Workers |-> Nil]
    /\ wrappedHandler = [w \in Workers |-> NoHandler]
    /\ response = [w \in Workers |-> Nil]
    /\ err = [w \in Workers |-> NoError]
    /\ raised = [w \in Workers |-> NoPanic]
    /\ pending = [w \in Workers |-> {}]
    /\ inner = [w \in Workers |-> NoOutcome]
    /\ before = [w \in Workers |-> Snapshot]
    /\ log = [w \in Workers |-> <<>>]

(* The handlers the decorator is exercised with: a nil handler, one that   *)
(* fails validation, and valid ones with and without payload and results.  *)
Handlers ==
    {NilHandler,
     FuncHandler(<<"int", "int", "int">>, <<"error">>),
     FuncHandler(<<"Context", "int">>, <<"string", "error">>),
     FuncHandler(<<>>, <<>>)}

Init == InitProcess /\ handler \in Handlers
InitHandler == InitProcess /\ handler \in AllHandlers

----------------------------------------------------------------------------
(* Effects shared by the actions *)

(* The user function ran (or not) during a call of a lambdaHandler. *)
AdapterEffects(o) ==
    /\ handlerCalls' = IF o.called THEN handlerCalls + 1 ELSE handlerCalls
    /\ lastArgs' = IF o.called THEN o.args ELSE lastArgs

(* A sequence of calls reaches the sender. *)
RECURSIVE SumDeltas(_, _)
SumDeltas(calls, name) ==
    IF calls = <<>> THEN 0
    ELSE (IF Head(calls).op = "SendDeltaCounter" /\ Head(calls).name = name
          THEN Head(calls).value ELSE 0) + SumDeltas(Tail(calls), name)

(* The log keeps the calls in the order issued, except that the calls of   *)
(* one range loop over a map, whose order Go leaves unspecified, form one  *)
(* unordered batch: the log is a sequence of sets of calls.                *)
Singly(calls) == [i \in 1..Len(calls) |-> {calls[i]}]
InBatch(l, call, first) ==
    IF first THEN Append(l, {call}) ELSE [l EXCEPT ![Len(l)] = @ \cup {call}]

SenderEffects(w, calls, newLog) ==
    /\ log' = [log EXCEPT ![w] = newLog]
    /\ emitted' = [c \in CounterNames |-> emitted[c] + SumDeltas(calls, c)]
    /\ closed' = (closed \/ \E i \in 1..Len(calls) : calls[i].op = "Close")
    /\ usedAfterClose' =
          \/ usedAfterClose
          \/ (closed /\ calls # <<>>)
          \/ \E i, j \in 1..Len(calls) : i < j /\ calls[i].op = "Close"

----------------------------------------------------------------------------
(* The deferred function of Invoke, lines 72-89: given the panic recover() *)
(* returns (NoPanic for nil), the named result err, errCounter.val and the *)
(* point tags: the new errCounter.val, the sender calls in order, and the  *)
(* panic it raises again (NoPanic when it returns).                        *)

Flush == SenderCall("Flush", "", 0, EmptyMap)
Close == SenderCall("Close", "", 0, EmptyMap)

(* The deferred function closing the sender before it flushes *)
DeferredCleanupCloseFirst(e, resultErr, errVal, tags) ==
    LET counted == IF e # NoPanic \/ resultErr # NoError
                   THEN Increment(errVal, 1) ELSE errVal
        report == IF e # NoPanic \/ resultErr # NoError
                  THEN <<SenderCall("SendDeltaCounter", ErrorsName, counted, tags)>>
                  ELSE <<>>
    IN [errCounter |-> counted,
        calls |-> report \o <<Close, Flush>>,
        panic |-> e]

DeferredCleanup(e, resultErr, errVal, tags) ==
    LET counted == IF e # NoPanic THEN Increment(errVal, 1)
                   ELSE IF resultErr # NoError THEN Increment(errVal, 1)
                   ELSE errVal
        report == IF e # NoPanic \/ resultErr # NoError
                  THEN <<SenderCall("SendDeltaCounter", ErrorsName, counted, tags)>>
                  ELSE <<>>
    IN [errCounter |-> counted,
        calls |-> report \o <<Flush, Close>>,
        panic |-> e]

----------------------------------------------------------------------------
(* The lambdaHandler wrapHandler returns, called by the host with a        *)
(* context carrying LambdaContext lc: NewHandlerWrapper, then Invoke up to *)
(* the registration of the deferred function (lines 20-89).                *)

InvokeStart(w, lc) ==
    /\ pc[w] = "idle"
    /\ nInvocations < MaxInvocations
    /\ nInvocations' = nInvocations + 1
    /\ interleaved' = (interleaved \/ \E v \in Workers \ {w} : pc[v] # "idle")
    /\ wrappedHandler' = [wrappedHandler EXCEPT ![w] = newHandler(handler)]
    /\ validations' = IF Validates(handler) THEN validations + 1 ELSE validations
    /\ arn' = [arn EXCEPT ![w] = lc.InvokedFunctionArn]
    /\ before' = [before EXCEPT ![w] = Snapshot]
    /\ LET r == ResolveTags(PointTags, lc)
       IN /\ PointTags' = r.tags
          /\ raised' = [raised EXCEPT ![w] = r.panic]
          /\ pc' = [pc EXCEPT ![w] = IF r.panic = NoPanic THEN "call" ELSE "panicked"]
    /\ UNCHANGED <<handler, procVars, metrics, counters, senderVars, handlerCalls,
                   lastArgs, payload, response, err, pending, inner, log>>

(* Invoke, lines 92-118: count the invocation, call the wrapped handler,   *)
(* count its error and the cold start, fill the counters and metrics maps. *)
(* A panic of the wrapped handler unwinds to the deferred function.  The   *)
(* host's payload p matters only to a wrapped handler that reads it.       *)

InvokeCall(w, p) ==
    /\ pc[w] = "call"
    /\ invocationsCounter' = Increment(invocationsCounter, 1)
    /\ payload' = [payload EXCEPT ![w] =
                      IF TakesPayload(wrappedHandler[w], handler) THEN p ELSE @]
    /\ \E o \in Call(wrappedHandler[w], handler, CtxValue, p) :
          /\ inner' = [inner EXCEPT ![w] = o]
          /\ AdapterEffects(o)
          /\ IF o.panic # NoPanic
             THEN /\ raised' = [raised EXCEPT ![w] = o.panic]
                  /\ pc' = [pc EXCEPT ![w] = "cleanup"]
                  /\ UNCHANGED <<response, err, errCounter, coldStart, csCounter,
                                 counters, metrics, pending>>
             ELSE /\ response' = [response EXCEPT ![w] = o.response]
                  /\ err' = [err EXCEPT ![w] = o.err]
                  /\ errCounter' = IF o.err # NoError THEN Increment(errCounter, 1)
                                   ELSE errCounter
                  /\ csCounter' = IF coldStart THEN Increment(csCounter, 1) ELSE csCounter
                  /\ coldStart' = FALSE
                  /\ counters' = MapSet(MapSet(counters, ColdStartsName, csCounter'),
                                        InvocationsName, invocationsCounter')
                  /\ \E d \in Durations, m \in MemoryStats :
                        metrics' = MapSet(MapSet(MapSet(MapSet(metrics,
                                      DurationName, d),
                                      MemTotalName, m.Total),
                                      MemUsedName, m.Used),
                                      MemPercentageName, m.UsedPercentage)
                  /\ pending' = [pending EXCEPT ![w] = DOMAIN metrics']
                  /\ pc' = [pc EXCEPT ![w] = "metrics"]
                  /\ UNCHANGED raised
    /\ UNCHANGED <<handler, PointTags, senderVars, nInvocations, interleaved, validations,
                   arn, wrappedHandler, before, log>>

(* Invoke, lines 121-126: one iteration of the range over the metrics map. *)
(* The send succeeds or fails; its result is assigned to err.              *)

InvokeSendMetric(w) ==
    /\ pc[w] = "metrics"
    /\ \E k \in pending[w], sendErr \in {NoError, SendError} :
          /\ LET call == SenderCall("SendMetric", k, metrics[k], PointTags)
             IN SenderEffects(w, <<call>>,
                              InBatch(log[w], call, pending[w] = DOMAIN metrics))
          /\ err' = [err EXCEPT ![w] = sendErr]
          /\ IF pending[w] = {k}
             THEN /\ pending' = [pending EXCEPT ![w] = DOMAIN counters]
                  /\ pc' = [pc EXCEPT ![w] = "counters"]
             ELSE /\ pending' = [pending EXCEPT ![w] = @ \ {k}]
                  /\ UNCHANGED pc
    /\ UNCHANGED <<handler, procVars, agentVars, adapterVars, nInvocations, interleaved,
                   arn, payload, wrappedHandler, response, raised, inner, before>>

(* Invoke, lines 129-136: one iteration of the range over the counters     *)
(* map; after the last one Invoke returns (response, err).                 *)

InvokeSendCounter(w) ==
    /\ pc[w] = "counters"
    /\ \E k \in pending[w], sendErr \in {NoError, SendError} :
          /\ LET call == SenderCall("SendDeltaCounter", k, counters[k], PointTags)
             IN SenderEffects(w, <<call>>,
                              InBatch(log[w], call, pending[w] = DOMAIN counters))
          /\ err' = [err EXCEPT ![w] = sendErr]
          /\ pending' = [pending EXCEPT ![w] = @ \ {k}]
          /\ pc' = [pc EXCEPT ![w] = IF pending[w] = {k} THEN "cleanup" ELSE "counters"]
    /\ UNCHANGED <<handler, procVars, agentVars, adapterVars, nInvocations, interleaved,
                   arn, payload, wrappedHandler, response, raised, inner, before>>

(* The deferred function runs: on the return of Invoke or on the panic of  *)
(* the wrapped handler.                                                    *)

InvokeCleanup(w) ==
    /\ pc[w] = "cleanup"
    /\ LET c == DeferredCleanup(Recover(raised[w]), err[w], errCounter, PointTags)
       IN /\ errCounter' = c.errCounter
          /\ SenderEffects(w, c.calls, log[w] \o Singly(c.calls))
          /\ raised' = [raised EXCEPT ![w] = c.panic]
          /\ pc' = [pc EXCEPT ![w] = IF c.panic # NoPanic THEN "panicked" ELSE "returned"]
    /\ UNCHANGED <<handler, coldStart, csCounter, invocationsCounter, agentVars,
                   adapterVars, nInvocations, interleaved, arn, payload, wrappedHandler, response,
                   err, pending, inner, before>>

(* The host has the result, or has recovered the panic; the invocation's   *)
(* frame is gone.                                                          *)

InvokeDone(w) ==
    /\ pc[w] \in {"returned", "panicked"}
    /\ pc' = [pc EXCEPT ![w] = "idle"]
    /\ arn' = [arn EXCEPT ![w] = <<>>]
    /\ payload' = [payload EXCEPT ![w] = Nil]
    /\ wrappedHandler' = [wrappedHandler EXCEPT ![w] = NoHandler]
    /\ response' = [response EXCEPT ![w] = Nil]
    /\ err' = [err EXCEPT ![w] = NoError]
    /\ raised' = [raised EXCEPT ![w] = NoPanic]
    /\ pending' = [pending EXCEPT ![w] = {}]
    /\ inner' = [inner EXCEPT ![w] = NoOutcome]
    /\ before' = [before EXCEPT ![w] = Snapshot]
    /\ log' = [log EXCEPT ![w] = <<>>]
    /\ UNCHANGED <<handler, procVars, agentVars, senderVars, adapterVars, nInvocations, interleaved>>

(* The host runs one invocation at a time, to completion. *)
Next ==
    \/ \E lc \in LambdaContexts : InvokeStart(Main, lc)
    \/ \E p \in Payloads : InvokeCall(Main, p)
    \/ InvokeSendMetric(Main)
    \/ InvokeSendCounter(Main)
    \/ InvokeCleanup(Main)
    \/ InvokeDone(Main)

Spec == Init /\ [][Next]_vars

----------------------------------------------------------------------------
(* Two goroutines call the lambdaHandler wrapHandler returned, once each,   *)
(* on one agent: Main for a function ARN and then, at any time from there  *)
(* on, the other goroutine for an event source mapping ARN.  The steps of  *)
(* the two invocations interleave.  Invoke takes no lock around the shared *)
(* maps (PointTags, metrics, counters): when one goroutine is about to     *)
(* write a map that the other is about to write, range over or hand to the *)
(* sender, the Go runtime may also detect the concurrent access and end    *)
(* the process with a fatal error that no recover() stops.                 *)

Other == CHOOSE w \in Workers : w # Main

InitConcurrent == InitProcess /\ handler = FuncHandler(<<>>, <<>>)

FirstCall ==
    /\ nInvocations = 0
    /\ InvokeStart(Main, LambdaContext(ArnFunction))

SecondCall ==
    /\ nInvocations = 1
    /\ InvokeStart(Other, LambdaContext(ArnEventSource))

MapRaceFatal(w, v) ==
    /\ w # v
    /\ \/ /\ w = Other
          /\ pc[w] = "idle"
          /\ nInvocations = 1
          /\ \/ pc[v] \in {"metrics", "counters"}
             \/ /\ pc[v] = "cleanup"
                /\ (Recover(raised[v]) # NoPanic \/ err[v] # NoError)
       \/ /\ pc[w] = "call"
          /\ pc[v] \in {"call", "metrics", "counters"}
    /\ pc' = [u \in Workers |-> "fatal"]
    /\ UNCHANGED <<handler, procVars, agentVars, senderVars, adapterVars,
                   nInvocations, interleaved, arn, payload, wrappedHandler,
                   response, err, raised, pending, inner, before, log>>

NextConcurrent ==
    \/ FirstCall
    \/ SecondCall
    \/ \E w \in Workers, p \in Payloads : InvokeCall(w, p)
    \/ \E w \in Workers : InvokeSendMetric(w)
    \/ \E w \in Workers : InvokeSendCounter(w)
    \/ \E w \in Workers : InvokeCleanup(w)
    \/ \E w \in Workers : InvokeDone(w)
    \/ \E w, v \in Workers : MapRaceFatal(w, v)

SpecConcurrent == InitConcurrent /\ [][NextConcurrent]_vars

----------------------------------------------------------------------------
(* The payload adapter on its own: newHandler applied to a handler symbol, *)
(* and the lambdaHandler it returns called directly.                       *)

NewHandlerStep(w) ==
    /\ pc[w] = "idle"
    /\ wrappedHandler' = [wrappedHandler EXCEPT ![w] = newHandler(handler)]
    /\ validations' = IF Validates(handler) THEN validations + 1 ELSE validations
    /\ pc' = [pc EXCEPT ![w] = "wrapped"]
    /\ UNCHANGED <<handler, procVars, agentVars, senderVars, handlerCalls, lastArgs,
                   nInvocations, interleaved, arn, payload, response, err, raised, pending,
                   inner, before, log>>

LambdaHandlerCall(w, p) ==
    /\ pc[w] = "wrapped"
    /\ nInvocations < MaxInvocations
    /\ nInvocations' = nInvocations + 1
    /\ before' = [before EXCEPT ![w] = Snapshot]
    /\ payload' = [payload EXCEPT ![w] =
                      IF TakesPayload(wrappedHandler[w], handler) THEN p ELSE @]
    /\ \E o \in Call(wrappedHandler[w], handler, CtxValue, p) :
          /\ inner' = [inner EXCEPT ![w] = o]
          /\ AdapterEffects(o)
          /\ raised' = [raised EXCEPT ![w] = o.panic]
          /\ response' = [response EXCEPT ![w] = o.response]
          /\ err' = [err EXCEPT ![w] = o.err]
    /\ UNCHANGED <<handler, procVars, agentVars, senderVars, validations, pc, arn,
                   wrappedHandler, pending, log, interleaved>>

NextHandler ==
    \/ NewHandlerStep(Main)
    \/ \E p \in Payloads : LambdaHandlerCall(Main, p)

SpecHandler == InitHandler /\ [][NextHandler]_vars

----------------------------------------------------------------------------
(* Properties of the telemetry decorator *)

Exited(w) == pc[w] \in {"returned", "panicked"}
ReachedInner(w) == inner[w] # NoOutcome
InnerAborted(w) == ReachedInner(w) /\ inner[w].panic # NoPanic
InnerReturned(w) == ReachedInner(w) /\ inner[w].panic = NoPanic
OpsOf(batch) == {c.op : c \in batch}
IsErrorsDelta(c) == c.op = "SendDeltaCounter" /\ c.name = ErrorsName

(* C1: when the inner callable returns normally with (response, error),    *)
(* Invoke returns exactly that pair to its caller, whatever the sends did. *)
C1_ReturnsInnerPair ==
    \A w \in Workers :
        (pc[w] = "returned" /\ InnerReturned(w)) =>
            /\ response[w] = inner[w].response
            /\ err[w] = inner[w].err

(* C2: on every exit path of an invocation that reached the inner call,    *)
(* Flush is called exactly once and then Close exactly once, after every   *)
(* metric and delta-counter send and before control leaves Invoke.         *)
C2_FlushThenCloseOnEveryExit ==
    \A w \in Workers :
        LET l == log[w]
            n == Len(l)
        IN /\ (Exited(w) /\ ReachedInner(w)) =>
                 /\ n >= 2
                 /\ l[n - 1] = {Flush}
                 /\ l[n] = {Close}
                 /\ \A i \in 1..(n - 2) : OpsOf(l[i]) \cap {"Flush", "Close"} = {}
           /\ pc[w] \in {"call", "metrics", "counters", "cleanup"} =>
                 \A i \in 1..n : OpsOf(l[i]) \cap {"Flush", "Close"} = {}

C2_Witness ==
    /\ pc[Main] = "returned"
    /\ InnerReturned(Main)
    /\ inner[Main].err = HandlerError
    /\ Len(log[Main]) >= 4
    /\ log[Main][Len(log[Main])] = {Close}

(* C3: when the inner call panics, Invoke counts an error, sends the       *)
(* errors delta counter, flushes, closes, and only then panics again with  *)
(* the same value; it never returns normally from an inner panic, and an   *)
(* invocation whose inner call returned never panics.                      *)
C3_AbortReraisedAfterCleanup ==
    \A w \in Workers :
        /\ (pc[w] = "panicked" /\ InnerAborted(w)) =>
              /\ raised[w] = inner[w].panic
              /\ errCounter = before[w].errCounter + 1
              /\ log[w] = <<{SenderCall("SendDeltaCounter", ErrorsName,
                                        errCounter, PointTags)},
                            {Flush}, {Close}>>
        /\ (Exited(w) /\ InnerAborted(w)) => pc[w] = "panicked"
        /\ (Exited(w) /\ InnerReturned(w)) =>
              (pc[w] = "returned" /\ raised[w] = NoPanic)

(* C4: whenever the inner call panics or returns a non-nil error, the      *)
(* deferred function sends aws.lambda.wf.errors as a delta counter before  *)
(* Flush, whether or not the metric sends in between succeeded.  Stated    *)
(* here for the inner call that returns a non-nil error.                   *)
C4_ErrorsDeltaSentBeforeFlush ==
    \A w \in Workers :
        (Exited(w) /\ InnerReturned(w) /\ inner[w].err # NoError) =>
            \E i, j \in 1..Len(log[w]) :
                /\ i < j
                /\ \E c \in log[w][i] : IsErrorsDelta(c)
                /\ log[w][j] = {Flush}

(* C5: in one call of Invoke that reaches the inner call, the invocation   *)
(* counter is incremented exactly once and the error counter at most once, *)
(* for every inner outcome and every pattern of send results.              *)
C5_CountersOncePerInvocation ==
    \A w \in Workers :
        (Exited(w) /\ ReachedInner(w)) =>
            /\ invocationsCounter = before[w].invocationsCounter + 1
            /\ errCounter <= before[w].errCounter + 1

(* C6: the cold-start counter is incremented exactly once, during the      *)
(* first invocation, whether that invocation succeeds, returns an error or *)
(* panics; the flag goes from true to false at the end of the first        *)
(* invocation and never returns to true.                                   *)
C6_ColdStartCountedInFirstInvocation ==
    /\ csCounter <= 1
    /\ \A w \in Workers :
          (Exited(w) /\ ReachedInner(w) /\ nInvocations = 1) =>
              (csCounter = 1 /\ coldStart = FALSE)

(* C7: a failing SendMetric or SendDeltaCounter neither changes the pair   *)
(* Invoke returns nor makes the error counter count: a send error is never *)
(* what the caller gets, and an inner call that returned no error leaves   *)
(* errCounter as it was.                                                   *)
C7_SendFailureIsInvisible ==
    \A w \in Workers :
        (pc[w] = "returned" /\ InnerReturned(w)) =>
            /\ err[w] # SendError
            /\ response[w] = inner[w].response
            /\ inner[w].err = NoError => errCounter = before[w].errCounter

(* C8: every delta-counter emission carries the increments since the       *)
(* previous emission, so after any number of invocations the values sent   *)
(* for aws.lambda.wf.invocations sum to the number of invocations and      *)
(* those for aws.lambda.wf.coldstarts to the number of cold starts.        *)
C8_DeltasSumToCounters ==
    \A w \in Workers :
        (pc[w] = "returned" /\ InnerReturned(w)) =>
            /\ emitted[InvocationsName] = invocationsCounter
            /\ emitted[ColdStartsName] = csCounter

----------------------------------------------------------------------------
(* Properties of the payload adapter and the signature validator *)

(* The shapes the validator is to refuse, as the handler documentation     *)
(* states them.                                                            *)
ShapeRefused(h) ==
    \/ NumIn(h) > 2
    \/ NumIn(h) = 2 /\ h.ins[1] # "Context"
    \/ NumOut(h) > 2
    \/ NumOut(h) = 2 /\ h.outs[2] # "error"
    \/ NumOut(h) = 1 /\ h.outs[1] # "error"

(* C9: if the shape of a handler fails validation, the callable newHandler *)
(* produces returns that validation error with a nil result on every       *)
(* invocation and never calls the handler.                                 *)
C9_InvalidShapeAlwaysFails ==
    \A w \in Workers :
        (pc[w] = "wrapped" /\ handler.kind = "func" /\ ShapeRefused(handler)) =>
            /\ wrappedHandler[w].kind = "error"
            /\ wrappedHandler[w].err \in
                  {validateArguments(handler)[2], validateReturns(handler)} \ {NoError}
            /\ handlerCalls = 0
            /\ ReachedInner(w) =>
                  /\ response[w] = Nil
                  /\ err[w] = wrappedHandler[w].err
                  /\ raised[w] = NoPanic
                  /\ ~inner[w].called

C9_Witness ==
    /\ pc[Main] = "wrapped"
    /\ handler = FuncHandler(<<"int", "string">>, <<"string", "error">>)
    /\ nInvocations = 2
    /\ err[Main] = validateArguments(handler)[2]
    /\ err[Main] # NoError

(* C10: the validator accepts a shape exactly when it has at most two      *)
(* arguments, the first of two being context-like, and at most two return  *)
(* values, the second of two and a single one being error-like; on         *)
(* acceptance takes-context is true iff there is a first argument and it   *)
(* is context-like.                                                        *)
C10_ValidatorAcceptsExactlyLegalShapes ==
    \A w \in Workers :
        (pc[w] = "wrapped" /\ handler.kind = "func") =>
            /\ (wrappedHandler[w].kind = "call") <=>
                  /\ NumIn(handler) <= 2
                  /\ NumIn(handler) = 2 => handler.ins[1] = "Context"
                  /\ NumOut(handler) <= 2
                  /\ NumOut(handler) = 2 => handler.outs[2] = "error"
                  /\ NumOut(handler) = 1 => handler.outs[1] = "error"
            /\ wrappedHandler[w].kind = "call" =>
                  (wrappedHandler[w].takesContext <=>
                      (NumIn(handler) >= 1 /\ handler.ins[1] = "Context"))

C10_Witness ==
    /\ pc[Main] = "wrapped"
    /\ handler = FuncHandler(<<"Context">>, <<"string", "error">>)
    /\ wrappedHandler[Main].kind = "call"
    /\ wrappedHandler[Main].takesContext

(* The error json.Marshal or json.Unmarshal gives for payload p and a      *)
(* handler whose last argument has type eventType; NoError when p decodes. *)
DecodeError(p, eventType) ==
    IF Marshal(p)[2] # NoError THEN Marshal(p)[2]
    ELSE Unmarshal(Marshal(p)[1], eventType)[2]

(* C11: when a valid handler takes a payload and encoding or decoding the  *)
(* input into the type of that argument fails, the adapter returns that    *)
(* error with a nil result and does not call the handler.                  *)
C11_DecodeFailureSkipsHandler ==
    \A w \in Workers :
        (/\ pc[w] = "wrapped"
         /\ ReachedInner(w)
         /\ TakesPayload(wrappedHandler[w], handler)
         /\ DecodeError(payload[w], handler.ins[NumIn(handler)]) # NoError) =>
            /\ response[w] = Nil
            /\ err[w] = DecodeError(payload[w], handler.ins[NumIn(handler)])
            /\ raised[w] = NoPanic
            /\ ~inner[w].called
            /\ handlerCalls = before[w].handlerCalls

C11_Witness ==
    /\ pc[Main] = "wrapped"
    /\ ReachedInner(Main)
    /\ handler = FuncHandler(<<"Context", "int">>, <<"string", "error">>)
    /\ payload[Main] = PayloadString
    /\ err[Main] = Unmarshal(Marshal(PayloadString)[1], "int")[2]
    /\ err[Main] # NoError
    /\ handlerCalls = 0

----------------------------------------------------------------------------
(* Properties of the decorator around particular handlers and contexts *)

(* C12: a nil handler wrapped with the decorator and invoked gives its     *)
(* caller the error "handler is nil" with a nil response on every          *)
(* invocation that returns, and that invocation has incremented the        *)
(* invocation counter by exactly one.                                      *)
C12_NilHandlerReportsItsError ==
    \A w \in Workers :
        (pc[w] = "returned" /\ handler = NilHandler) =>
            /\ err[w] = "handler is nil"
            /\ response[w] = Nil
            /\ invocationsCounter = before[w].invocationsCounter + 1

(* The metric and delta-counter sends an invocation has issued so far. *)
SendsOf(w) ==
    {c \in UNION {log[w][i] : i \in 1..Len(log[w])} :
        c.op \in {"SendMetric", "SendDeltaCounter"}}

(* C13: every metric of an invocation whose ARN has the resource type      *)
(* event-source-mappings is tagged with EventSourceMappings equal to the   *)
(* resource name and with no Resource tag, whatever invocations the shared *)
(* tag set has been through before.                                        *)
C13_EventSourceTagsWithoutResource ==
    \A w \in Workers :
        LET sp == Split(arn[w])
        IN (/\ pc[w] \in {"metrics", "counters", "cleanup", "returned", "panicked"}
            /\ Len(sp) >= 7
            /\ sp[6] = <<"event-source-mappings">>) =>
               \A c \in SendsOf(w) :
                   /\ "EventSourceMappings" \in DOMAIN c.tags
                   /\ c.tags["EventSourceMappings"] = sp[7]
                   /\ "Resource" \notin DOMAIN c.tags

(* C14: for an ARN of 7 or 8 segments whose segment [5] is "function", tag *)
(* resolution sets Region to segment [3], accountId to segment [4],        *)
(* LambdaArn to the whole ARN and Resource to segment [6], followed by ":" *)
(* and segment [7] exactly when there are 8 segments.  Go's segment [i] is *)
(* sp[i + 1] here.                                                         *)
C14_FunctionArnTags ==
    \A w \in Workers :
        LET sp == Split(arn[w])
        IN (/\ pc[w] # "idle"
            /\ Len(sp) \in {7, 8}
            /\ sp[6] = <<"function">>) =>
               /\ {"Region", "accountId", "LambdaArn", "Resource"} \subseteq DOMAIN PointTags
               /\ PointTags["Region"] = sp[4]
               /\ PointTags["accountId"] = sp[5]
               /\ PointTags["LambdaArn"] = arn[w]
               /\ PointTags["Resource"] =
                     IF Len(sp) = 8 THEN sp[7] \o <<":">> \o sp[8] ELSE sp[7]

C14_Witness ==
    /\ pc[Main] = "call"
    /\ arn[Main] = ArnQualified
    /\ nInvocations = 2
    /\ PointTags["Region"] = <<"us-west-2">>
    /\ PointTags["accountId"] = <<"123456789012">>
    /\ PointTags["Resource"] = <<"my-func", ":", "3">>
    /\ "EventSourceMappings" \in DOMAIN PointTags

----------------------------------------------------------------------------
(* Properties of invocations that share one agent *)

(* Whether sender call c carries the identity tags of the ARN a. *)
HasIdentityOf(c, a) ==
    /\ {"LambdaArn", "Region", "accountId"} \subseteq DOMAIN c.tags
    /\ c.tags["LambdaArn"] = a
    /\ Len(Split(a)) >= 5
    /\ c.tags["Region"] = Split(a)[4]
    /\ c.tags["accountId"] = Split(a)[5]

(* C15: as long as the invocations on one agent ran strictly one at a      *)
(* time, every metric emitted during an invocation carries the LambdaArn,  *)
(* Region and accountId of that invocation; a metric carrying another      *)
(* invocation's identity is emitted only when invocations interleave.      *)
C15_OwnIdentityWhenOneAtATime ==
    ~interleaved =>
        \A w \in Workers : \A c \in SendsOf(w) : HasIdentityOf(c, arn[w])

(* Two interleaved invocations with different ARNs: a metric emitted by    *)
(* one has been sent with the identity tags of the other.                  *)
C15_Witness ==
    \E w, v \in Workers :
        /\ w # v
        /\ pc[w] \in {"metrics", "counters", "cleanup", "returned"}
        /\ pc[v] \in {"call", "metrics", "counters", "cleanup", "returned"}
        /\ arn[w] # arn[v]
        /\ \E c \in SendsOf(w) :
              /\ c.op = "SendMetric"
              /\ HasIdentityOf(c, arn[v])
              /\ ~HasIdentityOf(c, arn[w])

(* C16: the signature validator runs once per wrap of a handler and not    *)
(* again on the invocations of the lambdaHandler wrapHandler returned:     *)
(* whatever the number of invocations, the number of validation runs of    *)
(* one wrapped func handler is at most 1, and is 1 once it is invoked.     *)
C16_ValidatedOncePerWrap ==
    handler.kind = "func" =>
        /\ validations <= 1
        /\ nInvocations >= 1 => validations = 1

----------------------------------------------------------------------------
(* Properties of the payload adapter, continued *)

(* C17: for every valid shape and every payload that decodes, the adapter  *)
(* calls the handler exactly once, with the context first if the handler   *)
(* takes one and then the decoded payload if the handler has a sole        *)
(* non-context argument or two arguments; when the handler returns, the    *)
(* adapter returns its first return value if it has two (nil otherwise)    *)
(* and its last return value if that is a non-nil error (nil otherwise).   *)
C17_CallsHandlerOnceAndConverts ==
    \A w \in Workers :
        LET h == handler
            takesContext == NumIn(h) >= 1 /\ ImplementsContext(h.ins[1])
            takesPayload == (NumIn(h) = 1 /\ ~takesContext) \/ NumIn(h) = 2
            decoded == Unmarshal(Marshal(payload[w])[1], h.ins[NumIn(h)])[1]
            expected == (IF takesContext THEN <<CtxValue>> ELSE <<>>)
                            \o (IF takesPayload THEN <<decoded>> ELSE <<>>)
        IN (/\ pc[w] = "wrapped"
            /\ wrappedHandler[w].kind = "call"
            /\ ReachedInner(w)
            /\ takesPayload => DecodeError(payload[w], h.ins[NumIn(h)]) = NoError) =>
               /\ inner[w].called
               /\ handlerCalls = before[w].handlerCalls + 1
               /\ lastArgs = expected
               /\ raised[w] = NoPanic =>
                     \E res \in HandlerResults(h) :
                         /\ response[w] = IF NumOut(h) = 2 THEN res[1] ELSE Nil
                         /\ err[w] = IF /\ NumOut(h) >= 1
                                        /\ ImplementsError(res[NumOut(h)].type)
                                        /\ res[NumOut(h)].v # NoError
                                     THEN res[NumOut(h)].v
                                     ELSE NoError

C17_Witness ==
    /\ pc[Main] = "wrapped"
    /\ handler = FuncHandler(<<"Context", "int">>, <<"string", "error">>)
    /\ payload[Main] = PayloadNumber
    /\ handlerCalls = 2
    /\ lastArgs = <<CtxValue, GoVal("int", "42")>>
    /\ response[Main] = GoVal("string", "result")
    /\ err[Main] = HandlerError

----------------------------------------------------------------------------
(* Frame and ordering properties of the decorator *)

(* C18: over the invocations that share one agent and its sender, no       *)
(* SendMetric, SendDeltaCounter or Flush is issued on the sender after     *)
(* Close has been called on it.                                            *)
C18_NothingSentAfterClose ==
    ~usedAfterClose

(* C19: an invocation whose inner call panics leaves coldStart and the     *)
(* cold-start counter as they were and sends none of the duration, memory, *)
(* invocations and coldstarts metrics: the sender calls it issues are the  *)
(* errors delta counter, Flush and Close and nothing else, and the         *)
(* invocation counter has gone up by one.                                  *)
C19_AbortedInvocationFrame ==
    \A w \in Workers :
        (Exited(w) /\ InnerAborted(w)) =>
            /\ coldStart = before[w].coldStart
            /\ csCounter = before[w].csCounter
            /\ invocationsCounter = before[w].invocationsCounter + 1
            /\ SendsOf(w) = {SenderCall("SendDeltaCounter", ErrorsName,
                                        errCounter, PointTags)}
            /\ log[w] = <<SendsOf(w), {Flush}, {Close}>>

(* The tags lines 55-58 write for ARN a before any index expression. *)
TagsBeforeIndexing(tags, a) ==
    MapSet(MapSet(MapSet(MapSet(tags,
        "LambdaArn", a),
        "source", FunctionName),
        "FunctionName", FunctionName),
        "ExecutedVersion", FunctionVersion)

(* Whether tag resolution indexes the split ARN out of range. *)
ArnTooShort(a) ==
    LET sp == Split(a)
    IN \/ Len(sp) < 6
       \/ /\ sp[6] \in {<<"function">>, <<"event-source-mappings">>}
          /\ Len(sp) < 7

(* C20: when the ARN splits into fewer than 6 segments, or into fewer than *)
(* 7 with the resource type function or event-source-mappings, Invoke      *)
(* panics during tag resolution, before the deferred function is           *)
(* registered: the handler is not called, no counter and not the           *)
(* cold-start flag changes, nothing is issued on the sender, and the tags  *)
(* written before the failing index expression stay in the shared tag set. *)
(* An invocation without a LambdaContext has no ARN (arn is empty).        *)
C20_ShortArnAbortsBeforeCleanup ==
    \A w \in Workers :
        LET sp == Split(arn[w])
            n == Len(sp)
            t0 == TagsBeforeIndexing(PointTags, arn[w])
        IN (pc[w] # "idle" /\ arn[w] # <<>> /\ ArnTooShort(arn[w])) =>
               /\ pc[w] = "panicked"
               /\ raised[w] = IndexPanic(IF n < 4 THEN 3 ELSE n, n)
               /\ ~ReachedInner(w)
               /\ handlerCalls = before[w].handlerCalls
               /\ invocationsCounter = before[w].invocationsCounter
               /\ errCounter = before[w].errCounter
               /\ csCounter = before[w].csCounter
               /\ coldStart = before[w].coldStart
               /\ log[w] = <<>>
               /\ closed = before[w].closed
               /\ emitted = before[w].emitted
               /\ PointTags = t0
               /\ n >= 4 => PointTags["Region"] = sp[4]
               /\ n >= 5 => PointTags["accountId"] = sp[5]

C20_Witness ==
    /\ pc[Main] = "panicked"
    /\ arn[Main] = ArnNoName
    /\ nInvocations = 2
    /\ ~ReachedInner(Main)
    /\ PointTags["LambdaArn"] = ArnNoName
    /\ "Resource" \in DOMAIN PointTags

====
